---- MODULE Spec2Model ----
(***************************************************************************)
(* State-machine model of training_&_testing/training_loop.py (class      *)
(* Train): the epoch loop of training(), the per-batch confusion counts   *)
(* of batch_metrics, the metric derivation of epoch_metrics and the       *)
(* early-stopping policy with its checkpoint files.                       *)
(*                                                                         *)
(* Numbers.  Metric values are Python floats rounded to 2 decimals; they  *)
(* are kept here as integer hundredths (0.89 is 89).  Losses and the      *)
(* target average recall are quotients; they are kept as reduced          *)
(* fractions [num, den] with den > 0 and compared by cross               *)
(* multiplication.  Class c of the program (0-based) is index c + 1 of    *)
(* the count and history sequences.  Within the bounds below every sum    *)
(* and quotient the program forms is the float nearest to the exact       *)
(* value, and round(., 2) meets a tie only where Round2 and F1TiesUp say. *)
(*                                                                         *)
(* Exceptions.  An exception that leaves training() is the state          *)
(* pc = "error" with its name in `error`; the assignments made before the *)
(* raising line are kept.                                                 *)
(*                                                                         *)
(* Files.  `files` is the set of checkpoint files model_epoch{name}.pt in *)
(* the working directory, each with the model version it holds.           *)
(***************************************************************************)
EXTENDS Integers, Sequences, FiniteSets, TLC

VARIABLES
    \* constructor arguments and user-set attributes (lines 45-67)
    no_of_classes, labels_of_normal_classes, train_loader, validation_loader,
    epochs, patience, scheduler,
    \* state of training() and of the phase in progress
    pc, e, phase, step, run_loss, labels_list, preds_list,
    target_true, predicted_true, correct_true,
    training_history, validation_history,
    \* early-stopping state (lines 83-88)
    threshold_val_loss, threshold_avg_recall, best_model, unchanged_epochs,
    early_stopping_checkpoints,
    \* collaborators: the model being trained, the checkpoint files on disk,
    \* the scheduler's step count, and the exception that ended training()
    model, files, scheduler_steps, error

cfg_vars == <<no_of_classes, labels_of_normal_classes, train_loader,
              validation_loader, epochs, patience, scheduler>>
count_vars == <<target_true, predicted_true, correct_true>>
hist_vars == <<training_history, validation_history>>
stop_vars == <<threshold_val_loss, threshold_avg_recall, best_model,
               unchanged_epochs, early_stopping_checkpoints>>
loop_vars == <<pc, e, phase, step, run_loss, labels_list, preds_list>>
vars == <<cfg_vars, loop_vars, count_vars, hist_vars, stop_vars,
          model, files, scheduler_steps, error>>

----------------------------------------------------------------------------
(* Bounds of the model *)

NoOfClasses == 2
MaxEpochs == 3
MaxPatience == 2
MaxNormalLen == 3
MaxCalls == 3
MaxBatch == 2
MaxInstances == 4

(* Program constants *)

InitialThresholdValLoss == 1000000
InitialThresholdAvgRecall == 0

\* labels_of_normal_classes is None, or a list of integers (line 60)
None == [none |-> TRUE, list |-> <<>>]
ListOf(l) == [none |-> FALSE, list |-> l]
\* an integer label that is no class index (torch's default ignore_index)
IgnoredLabel == 0 - 100

----------------------------------------------------------------------------
(* Arithmetic helpers *)

RECURSIVE GCD(_, _)
GCD(a, b) == IF b = 0 THEN a ELSE GCD(b, a % b)

Abs(x) == IF x < 0 THEN 0 - x ELSE x

\* the quotient n / d (d # 0) as a reduced fraction with a positive denominator
Div(n, d) ==
    LET g == GCD(Abs(n), Abs(d))
        s == IF d < 0 THEN 0 - 1 ELSE 1
    IN  [num |-> (s * n) \div g, den |-> (s * d) \div g]

Less(a, b) == a.num * b.den < b.num * a.den

RECURSIVE SumSeq(_)
SumSeq(s) == IF s = <<>> THEN 0 ELSE Head(s) + SumSeq(Tail(s))

\* len([i for i in lst if i == x])
Count(lst, x) == Cardinality({i \in 1..Len(lst) : lst[i] = x})

Min(a, b) == IF a < b THEN a ELSE b

\* round(n / d, 2) in hundredths, for n >= 0 and d > 0 (ties to even)
Round2(n, d) ==
    LET q == (100 * n) \div d
        r == (100 * n) % d
    IN  IF 2 * r < d THEN q
        ELSE IF 2 * r > d THEN q + 1
        ELSE IF q % 2 = 0 THEN q ELSE q + 1

Last(s) == s[Len(s)]

Zeros(n) == [c \in 1..n |-> 0]

----------------------------------------------------------------------------
(* Pure functions of the program *)

\* batch_metrics assigning the counts of the batch instead of adding them
batch_metrics_assign(tt, pt, ct, labels, preds) ==
    [target_true |->
        [c \in 1..Len(tt) |-> Count(labels, c - 1)],
     predicted_true |->
        [c \in 1..Len(pt) |-> Count(preds, c - 1)],
     correct_true |->
        [c \in 1..Len(ct) |-> Cardinality(
            {i \in 1..Min(Len(labels), Len(preds)) :
                labels[i] = preds[i] /\ labels[i] = c - 1})]]

\* batch_metrics counting an instance of a class as correct whatever its
\* prediction
batch_metrics_label_only(tt, pt, ct, labels, preds) ==
    [target_true |->
        [c \in 1..Len(tt) |-> tt[c] + Count(labels, c - 1)],
     predicted_true |->
        [c \in 1..Len(pt) |-> pt[c] + Count(preds, c - 1)],
     correct_true |->
        [c \in 1..Len(ct) |-> ct[c] + Cardinality(
            {i \in 1..Min(Len(labels), Len(preds)) : labels[i] = c - 1})]]

\* batch_metrics, lines 197-205: the three count lists after one batch.
\* zip() pairs the two lists up to the shorter one.
batch_metrics(tt, pt, ct, labels, preds) ==
    [target_true |->
        [c \in 1..Len(tt) |-> tt[c] + Count(labels, c - 1)],
     predicted_true |->
        [c \in 1..Len(pt) |-> pt[c] + Count(preds, c - 1)],
     correct_true |->
        [c \in 1..Len(ct) |-> ct[c] + Cardinality(
            {i \in 1..Min(Len(labels), Len(preds)) :
                labels[i] = preds[i] /\ labels[i] = c - 1})]]

\* line 218 / 221: round(correct / total, 2) if total else 0
Ratio2(correct, total) == IF total # 0 THEN Round2(correct, total) ELSE 0

\* Pairs (precision, recall), in hundredths, at which precision * recall /
\* (precision + recall) is an exact tie of round(., 2) and the float quotient
\* rounds upwards; at the other ties it rounds downwards.  The table covers
\* the values that counts of at most 7 instances of a class produce.
F1TiesUp == {<<17, 17>>, <<33, 33>>, <<67, 67>>, <<71, 71>>, <<75, 75>>}

\* line 225: round(p * r / (p + r), 2), for p + r > 0
RoundedHalfF1(p, r) ==
    LET q == (p * r) \div (p + r)
        m == (p * r) % (p + r)
    IN  IF 2 * m < p + r THEN q
        ELSE IF 2 * m > p + r THEN q + 1
        ELSE IF <<p, r>> \in F1TiesUp THEN q + 1 ELSE q

\* the F1 score rounded once: round(2 * p * r / (p + r), 2)
F1Single(p, r) ==
    IF p + r = 0 THEN 0 ELSE Round2(2 * p * r, 100 * (p + r))

\* lines 224-225: 2 * round(p * r / (p + r), 2) if p + r else 0
F1(p, r) ==
    IF p + r = 0 THEN 0 ELSE 2 * RoundedHalfF1(p, r)

\* Pairs of values, in hundredths, whose mean is an exact tie of round(., 2)
\* and is rounded upwards by the float computation round((a + b) / 2, 2); at
\* the other ties it is rounded downwards.  The table covers the values that
\* counts of at most 7 instances of a class produce.  The mean of three
\* values is never a tie.
AvgTiesUp ==
    {<<0, 17>>, <<0, 33>>, <<0, 67>>, <<0, 75>>, <<14, 17>>, <<14, 25>>,
     <<14, 33>>, <<14, 43>>, <<14, 67>>, <<14, 75>>, <<17, 40>>, <<17, 50>>,
     <<17, 60>>, <<17, 80>>, <<17, 86>>, <<20, 25>>, <<20, 33>>, <<20, 43>>,
     <<20, 57>>, <<20, 67>>, <<20, 83>>, <<25, 40>>, <<25, 50>>, <<25, 80>>,
     <<29, 50>>, <<29, 80>>, <<29, 100>>, <<33, 50>>, <<33, 80>>, <<33, 100>>,
     <<40, 43>>, <<40, 67>>, <<43, 60>>, <<43, 86>>, <<50, 83>>, <<57, 80>>,
     <<60, 67>>, <<60, 71>>, <<60, 75>>, <<67, 80>>, <<67, 86>>, <<71, 80>>,
     <<75, 80>>, <<75, 100>>, <<83, 100>>}

\* lines 231, 234, 237: round(sum(l) / len(l), 2)
Mean2(l) ==
    IF Len(l) = 2 /\ (l[1] + l[2]) % 2 = 1
    THEN (l[1] + l[2]) \div 2
         + (IF <<l[1], l[2]>> \in AvgTiesUp \/ <<l[2], l[1]>> \in AvgTiesUp
            THEN 1 ELSE 0)
    ELSE Round2(SumSeq(l), 100 * Len(l))

recalls(tt, ct) == [c \in 1..Len(tt) |-> Ratio2(ct[c], tt[c])]
precisions(pt, ct) == [c \in 1..Len(pt) |-> Ratio2(ct[c], pt[c])]
f1_scores(tt, pt, ct) ==
    [c \in 1..Len(tt) |-> F1(precisions(pt, ct)[c], recalls(tt, ct)[c])]

\* lines 216-226: the per-class appends, which run before the accuracy
AppendPerClass(d, tt, pt, ct) ==
    [d EXCEPT
      !.recall_per_class =
          [c \in 1..Len(tt) |-> Append(d.recall_per_class[c], recalls(tt, ct)[c])],
      !.precision_per_class =
          [c \in 1..Len(tt) |-> Append(d.precision_per_class[c], precisions(pt, ct)[c])],
      !.f1_per_class =
          [c \in 1..Len(tt) |-> Append(d.f1_per_class[c], f1_scores(tt, pt, ct)[c])]]

\* the macro averages without the append to avg_f1
AppendAveragesSkipF1(d, tt, pt, ct) ==
    [d EXCEPT
      !.accuracy = Append(d.accuracy, Round2(SumSeq(ct), SumSeq(tt))),
      !.avg_recall =
          Append(d.avg_recall, Mean2(recalls(tt, ct))),
      !.avg_precision =
          Append(d.avg_precision, Mean2(precisions(pt, ct)))]

\* lines 228-239: accuracy and the macro averages (sum(target_true) # 0)
AppendAverages(d, tt, pt, ct) ==
    [d EXCEPT
      !.accuracy = Append(d.accuracy, Round2(SumSeq(ct), SumSeq(tt))),
      !.avg_recall =
          Append(d.avg_recall, Mean2(recalls(tt, ct))),
      !.avg_precision =
          Append(d.avg_precision, Mean2(precisions(pt, ct))),
      !.avg_f1 =
          Append(d.avg_f1, Mean2(f1_scores(tt, pt, ct)))]

\* lines 74-81
EmptyHistory(n) ==
    [loss |-> <<>>, accuracy |-> <<>>, avg_recall |-> <<>>,
     avg_precision |-> <<>>, avg_f1 |-> <<>>,
     recall_per_class |-> [c \in 1..n |-> <<>>],
     precision_per_class |-> [c \in 1..n |-> <<>>],
     f1_per_class |-> [c \in 1..n |-> <<>>]]

\* `i not in self.labels_of_normal_classes`
InList(x, lst) == \E i \in 1..Len(lst) : lst[i] = x

\* lines 249 and 252: the sum of the latest validation recall of the classes
\* that are not listed as normal (of every class when the list is None)
RecallSum(vh, normals) ==
    SumSeq([c \in 1..Len(vh.recall_per_class) |->
        IF ~normals.none /\ InList(c - 1, normals.list)
        THEN 0 ELSE Last(vh.recall_per_class[c])])

\* lines 250 and 253: the divisor of that sum
RecallDivisor(n, normals) == IF ~normals.none THEN n - Len(normals.list) ELSE n

\* the improvement test with non-strict comparisons
ImprovedNonStrict(loss, recall, thr_loss, thr_recall) ==
    ~Less(thr_loss, loss) /\ ~Less(recall, thr_recall)

\* the improvement test satisfied by either comparison alone
ImprovedEither(loss, recall, thr_loss, thr_recall) ==
    Less(loss, thr_loss) \/ Less(thr_recall, recall)

\* line 256: the improvement test against the stored thresholds
Improved(loss, recall, thr_loss, thr_recall) ==
    Less(loss, thr_loss) /\ Less(thr_recall, recall)

\* the break test one epoch late
StopNowLate(unchanged, pat) == unchanged = pat + 1

\* line 122
StopNow(unchanged, pat) == unchanged = pat

\* lines 247-253 on the current histories (defined when the divisor is not 0)
epoch_val_loss == Last(validation_history.loss)
epoch_val_avg_recall ==
    Div(RecallSum(validation_history, labels_of_normal_classes),
        100 * RecallDivisor(no_of_classes, labels_of_normal_classes))

----------------------------------------------------------------------------
(* Inputs *)

\* a loader is the sequence of its batches, a batch the list of its labels;
\* a loader yields the same batches in every epoch
Classes == 0..(NoOfClasses - 1)
Loader1 == << <<0>> >>
Loader2 == << <<0, NoOfClasses - 1>> >>

\* loaders of several batches, with and without a label that is no class
Loader3 == << <<0>>, <<NoOfClasses - 1>> >>
Loader4 == << <<0, IgnoredLabel>>, <<NoOfClasses - 1>> >>
Loader5 == << <<IgnoredLabel>> >>
Loader6 == << >>

\* lists of integers for labels_of_normal_classes: class indices and one
\* integer that is no class index, in non-decreasing order (the code reads
\* the list through `in` and len() only)
NormalLists ==
    {l \in UNION {[1..k -> 0..NoOfClasses] : k \in 0..MaxNormalLen} :
        \A i \in 1..Len(l) : \A j \in i..Len(l) : l[i] <= l[j]}

\* label lists and prediction lists a caller may hand to batch_metrics
CallLabels ==
    UNION {[1..k -> Classes \cup {IgnoredLabel}] : k \in 0..MaxBatch}
CallPreds == UNION {[1..k -> Classes] : k \in 0..MaxBatch}

\* loss.item() of a batch
TrainLosses == {2}
ValLosses == {1, 2, InitialThresholdValLoss}

\* the argmax of a batch of outputs, one class index per instance: the true
\* class of the instance or the class after it (a class at either end for a
\* label that is no class index)
PredChoices(label) ==
    IF label \in Classes THEN {label, (label + 1) % NoOfClasses}
    ELSE {0, NoOfClasses - 1}
Preds(labels) ==
    {p \in [1..Len(labels) -> Classes] :
        \A i \in 1..Len(labels) : p[i] \in PredChoices(labels[i])}

----------------------------------------------------------------------------
(* State after construction and lines 74-90 of training() *)

InitWith(normalsSet, trainSet, valSet, epochsSet, patienceSet, schedulerSet) ==
    /\ no_of_classes = NoOfClasses
    /\ labels_of_normal_classes \in normalsSet
    /\ train_loader \in trainSet
    /\ validation_loader \in valSet
    /\ epochs \in epochsSet
    /\ patience \in patienceSet
    /\ scheduler \in schedulerSet
    /\ e = 0
    /\ phase = "none"
    /\ step = 0
    /\ run_loss = 0
    /\ labels_list = <<>>
    /\ preds_list = <<>>
    /\ training_history = EmptyHistory(NoOfClasses)
    /\ validation_history = EmptyHistory(NoOfClasses)
    /\ threshold_val_loss = Div(InitialThresholdValLoss, 1)
    /\ threshold_avg_recall = Div(InitialThresholdAvgRecall, 1)
    /\ best_model = 0
    /\ unchanged_epochs = 0
    /\ early_stopping_checkpoints = <<>>
    /\ model = 0
    /\ files = {}
    /\ scheduler_steps = 0
    /\ error = "none"

\* training() is at the head of its loop; the count lists do not exist yet
AtLoopHead ==
    /\ pc = "for"
    /\ target_true = <<>>
    /\ predicted_true = <<>>
    /\ correct_true = <<>>

\* a run with a scheduler, all classes as target classes, one training
\* instance and two validation instances
Init ==
    /\ InitWith({None}, {Loader1}, {Loader2}, 0..MaxEpochs, 0..MaxPatience, {TRUE})
    /\ AtLoopHead

\* two epochs with any list of normal classes
InitRecall ==
    /\ InitWith({None} \cup {ListOf(l) : l \in NormalLists},
                {Loader1}, {Loader2}, {2}, {1, 2}, BOOLEAN)
    /\ AtLoopHead

\* two epochs over loaders of several batches
InitBatch ==
    /\ InitWith({None}, {Loader3, Loader4, Loader6},
                {Loader3, Loader4, Loader5}, {2}, {1}, {FALSE})
    /\ AtLoopHead

\* a Train object between two phases, whose batch_metrics a caller invokes
InitCall ==
    /\ InitWith({None}, {Loader1}, {Loader2}, {0}, {MaxPatience}, {FALSE})
    /\ pc = "call"
    /\ target_true = Zeros(NoOfClasses)
    /\ predicted_true = Zeros(NoOfClasses)
    /\ correct_true = Zeros(NoOfClasses)

\* two epochs while the checkpoint files may be removed from outside
InitEnv ==
    /\ InitWith({None}, {Loader1}, {Loader2}, {2}, {2}, {TRUE})
    /\ AtLoopHead

\* the batches of MaxInstances instances at most, labels and predictions
MetricsLabels ==
    UNION {[1..k -> Classes \cup {IgnoredLabel}] : k \in 1..MaxInstances}
MetricsPreds(labels) == [1..Len(labels) -> Classes]

\* the first training phase of a run over a loader of one batch has ended
\* (lines 144-164): epoch_metrics is about to be called at line 106
InitMetrics ==
    /\ no_of_classes = NoOfClasses
    /\ labels_of_normal_classes = None
    /\ train_loader \in {<<labels>> : labels \in MetricsLabels}
    /\ validation_loader = Loader2
    /\ epochs = 1
    /\ patience = 1
    /\ scheduler = FALSE
    /\ e = 0
    /\ phase = "train"
    /\ step = 1
    /\ run_loss \in TrainLosses
    /\ labels_list = <<>>
    /\ preds_list = <<>>
    /\ \E preds \in MetricsPreds(train_loader[1]) :
          LET r == batch_metrics(Zeros(NoOfClasses), Zeros(NoOfClasses),
                                 Zeros(NoOfClasses), train_loader[1], preds)
          IN  /\ target_true = r.target_true
              /\ predicted_true = r.predicted_true
              /\ correct_true = r.correct_true
    /\ training_history =
          [EmptyHistory(NoOfClasses) EXCEPT !.loss = <<Div(run_loss, 1)>>]
    /\ validation_history = EmptyHistory(NoOfClasses)
    /\ threshold_val_loss = Div(InitialThresholdValLoss, 1)
    /\ threshold_avg_recall = Div(InitialThresholdAvgRecall, 1)
    /\ best_model = 0
    /\ unchanged_epochs = 0
    /\ early_stopping_checkpoints = <<>>
    /\ model = 1
    /\ files = {}
    /\ scheduler_steps = 0
    /\ error = "none"
    /\ pc = "epoch_metrics"

Raise(name) ==
    /\ pc' = "error"
    /\ error' = name

----------------------------------------------------------------------------
(* training(): the epoch loop *)

\* lines 92-103 and 136-139: enter an iteration, train_epoch resets the counts
ForLoop ==
    /\ pc = "for"
    /\ e < epochs
    /\ pc' = "train_epoch"
    /\ phase' = "train"
    /\ step' = 0
    /\ run_loss' = 0
    /\ target_true' = Zeros(no_of_classes)
    /\ predicted_true' = Zeros(no_of_classes)
    /\ correct_true' = Zeros(no_of_classes)
    /\ UNCHANGED <<cfg_vars, e, labels_list, preds_list, hist_vars, stop_vars,
                   model, files, scheduler_steps, error>>

\* lines 129-130: the range is exhausted
Return ==
    /\ pc = "for"
    /\ e >= epochs
    /\ pc' = "done"
    /\ UNCHANGED <<cfg_vars, e, phase, step, run_loss, labels_list, preds_list,
                   count_vars, hist_vars, stop_vars, model, files,
                   scheduler_steps, error>>

\* lines 144-158: one training batch up to the call of batch_metrics
TrainStep ==
    /\ pc = "train_epoch"
    /\ step < Len(train_loader)
    /\ \E loss \in TrainLosses, preds \in Preds(train_loader[step + 1]) :
          /\ run_loss' = run_loss + loss
          /\ labels_list' = train_loader[step + 1]
          /\ preds_list' = preds
    /\ model' = model + 1
    /\ pc' = "batch_metrics"
    /\ UNCHANGED <<cfg_vars, e, phase, step, count_vars, hist_vars, stop_vars,
                   files, scheduler_steps, error>>

\* lines 176-187: one validation batch up to the call of batch_metrics
ValidateStep ==
    /\ pc = "validate_epoch"
    /\ step < Len(validation_loader)
    /\ \E loss \in ValLosses, preds \in Preds(validation_loader[step + 1]) :
          /\ run_loss' = run_loss + loss
          /\ labels_list' = validation_loader[step + 1]
          /\ preds_list' = preds
    /\ pc' = "batch_metrics"
    /\ UNCHANGED <<cfg_vars, e, phase, step, count_vars, hist_vars, stop_vars,
                   model, files, scheduler_steps, error>>

\* lines 197-205, called at line 159 or 188 (or by a caller of the method)
BatchMetrics ==
    /\ pc = "batch_metrics"
    /\ LET r == batch_metrics(target_true, predicted_true, correct_true,
                              labels_list, preds_list)
       IN  /\ target_true' = r.target_true
           /\ predicted_true' = r.predicted_true
           /\ correct_true' = r.correct_true
    /\ step' = step + 1
    /\ labels_list' = <<>>
    /\ preds_list' = <<>>
    /\ pc' = CASE phase = "train" -> "train_epoch"
               [] phase = "validate" -> "validate_epoch"
               [] OTHER -> "call"
    /\ UNCHANGED <<cfg_vars, e, phase, run_loss, hist_vars, stop_vars,
                   model, files, scheduler_steps, error>>

\* lines 161-164: the loader is exhausted; train_step is unbound when the
\* loader yielded no batch
TrainEpochEnd ==
    /\ pc = "train_epoch"
    /\ step = Len(train_loader)
    /\ IF step = 0
       THEN /\ Raise("UnboundLocalError")
            /\ UNCHANGED training_history
       ELSE /\ training_history' =
                 [training_history EXCEPT
                    !.loss = Append(@, Div(run_loss, step))]
            /\ pc' = "epoch_metrics"
            /\ UNCHANGED error
    /\ UNCHANGED <<cfg_vars, e, phase, step, run_loss, labels_list, preds_list,
                   count_vars, validation_history, stop_vars, model, files,
                   scheduler_steps>>

\* lines 190-193
ValidateEpochEnd ==
    /\ pc = "validate_epoch"
    /\ step = Len(validation_loader)
    /\ IF step = 0
       THEN /\ Raise("UnboundLocalError")
            /\ UNCHANGED validation_history
       ELSE /\ validation_history' =
                 [validation_history EXCEPT
                    !.loss = Append(@, Div(run_loss, step))]
            /\ pc' = "epoch_metrics"
            /\ UNCHANGED error
    /\ UNCHANGED <<cfg_vars, e, phase, step, run_loss, labels_list, preds_list,
                   count_vars, training_history, stop_vars, model, files,
                   scheduler_steps>>

\* lines 209-239 on one dictionary: the per-class lists are appended first,
\* then the accuracy divides by sum(target_true)
epoch_metrics(d) ==
    IF SumSeq(target_true) = 0
    THEN AppendPerClass(d, target_true, predicted_true, correct_true)
    ELSE AppendAverages(
            AppendPerClass(d, target_true, predicted_true, correct_true),
            target_true, predicted_true, correct_true)

\* lines 106 and 117
EpochMetrics ==
    /\ pc = "epoch_metrics"
    /\ IF phase = "train"
       THEN /\ training_history' = epoch_metrics(training_history)
            /\ UNCHANGED validation_history
       ELSE /\ validation_history' = epoch_metrics(validation_history)
            /\ UNCHANGED training_history
    /\ IF SumSeq(target_true) = 0
       THEN Raise("ZeroDivisionError")
       ELSE /\ pc' = IF phase = "train" THEN "validate" ELSE "early_stopping_check"
            /\ UNCHANGED error
    /\ UNCHANGED <<cfg_vars, e, phase, step, run_loss, labels_list, preds_list,
                   count_vars, stop_vars, model, files, scheduler_steps>>

\* lines 109-114 and 170-173: validate_epoch resets the counts
ValidateBegin ==
    /\ pc = "validate"
    /\ pc' = "validate_epoch"
    /\ phase' = "validate"
    /\ step' = 0
    /\ run_loss' = 0
    /\ target_true' = Zeros(no_of_classes)
    /\ predicted_true' = Zeros(no_of_classes)
    /\ correct_true' = Zeros(no_of_classes)
    /\ UNCHANGED <<cfg_vars, e, labels_list, preds_list, hist_vars, stop_vars,
                   model, files, scheduler_steps, error>>

----------------------------------------------------------------------------
(* early_stopping_check *)

\* the epoch number counted from 0
current_epoch_from_zero == Len(validation_history.loss) - 1

\* line 258
current_epoch == Len(validation_history.loss)

\* the file model_epoch{k}.pt
Exists(k) == \E f \in files : f.name = k

\* the previous checkpoint file removed from the third epoch onwards only
PrunesPriorLate(epoch) == epoch >= 3

\* line 269: if current_epoch>=2
PrunesPrior(epoch) == epoch >= 2

\* lines 246-267 and 275-276: the decision and the update of the policy
EarlyStoppingCheck ==
    /\ pc = "early_stopping_check"
    /\ IF RecallDivisor(no_of_classes, labels_of_normal_classes) = 0
       THEN /\ Raise("ZeroDivisionError")
            /\ UNCHANGED stop_vars
       ELSE IF Improved(epoch_val_loss, epoch_val_avg_recall,
                        threshold_val_loss, threshold_avg_recall)
       THEN /\ early_stopping_checkpoints' =
                 Append(early_stopping_checkpoints, current_epoch)
            /\ best_model' = model
            /\ unchanged_epochs' = 0
            /\ threshold_val_loss' = epoch_val_loss
            /\ threshold_avg_recall' = epoch_val_avg_recall
            /\ pc' = IF PrunesPrior(current_epoch) THEN "os_remove" ELSE "torch_save"
            /\ UNCHANGED error
       ELSE /\ unchanged_epochs' = unchanged_epochs + 1
            /\ pc' = "break_test"
            /\ UNCHANGED <<threshold_val_loss, threshold_avg_recall, best_model,
                           early_stopping_checkpoints, error>>
    /\ UNCHANGED <<cfg_vars, e, phase, step, run_loss, labels_list, preds_list,
                   count_vars, hist_vars, model, files, scheduler_steps>>

\* lines 269-270: os.remove of the file named by early_stopping_checkpoints[-2]
OsRemove ==
    /\ pc = "os_remove"
    /\ IF Len(early_stopping_checkpoints) < 2
       THEN /\ Raise("IndexError")
            /\ UNCHANGED files
       ELSE LET old == early_stopping_checkpoints[Len(early_stopping_checkpoints) - 1]
            IN  IF ~Exists(old)
                THEN /\ Raise("FileNotFoundError")
                     /\ UNCHANGED files
                ELSE /\ files' = {f \in files : f.name # old}
                     /\ pc' = "torch_save"
                     /\ UNCHANGED error
    /\ UNCHANGED <<cfg_vars, e, phase, step, run_loss, labels_list, preds_list,
                   count_vars, hist_vars, stop_vars, model, scheduler_steps>>

\* lines 271-273: torch.save(self.best_model, f'model_epoch{current_epoch}.pt')
TorchSave ==
    /\ pc = "torch_save"
    /\ files' = {f \in files : f.name # current_epoch}
                   \cup {[name |-> current_epoch, content |-> best_model]}
    /\ pc' = "break_test"
    /\ UNCHANGED <<cfg_vars, e, phase, step, run_loss, labels_list, preds_list,
                   count_vars, hist_vars, stop_vars, model, scheduler_steps,
                   error>>

\* lines 122-123
Break ==
    /\ pc = "break_test"
    /\ StopNow(unchanged_epochs, patience)
    /\ pc' = "done"
    /\ UNCHANGED <<cfg_vars, e, phase, step, run_loss, labels_list, preds_list,
                   count_vars, hist_vars, stop_vars, model, files,
                   scheduler_steps, error>>

\* a scheduler stepped twice per epoch
StepSchedulerTwice(sched, steps) == IF sched THEN steps + 2 ELSE steps

\* lines 126-127: if self.scheduler: self.scheduler.step()
StepScheduler(sched, steps) == IF sched THEN steps + 1 ELSE steps

\* lines 125-127, then the next value of the range
SchedulerStep ==
    /\ pc = "break_test"
    /\ ~StopNow(unchanged_epochs, patience)
    /\ scheduler_steps' = StepScheduler(scheduler, scheduler_steps)
    /\ e' = e + 1
    /\ pc' = "for"
    /\ UNCHANGED <<cfg_vars, phase, step, run_loss, labels_list, preds_list,
                   count_vars, hist_vars, stop_vars, model, files, error>>

Next ==
    \/ ForLoop
    \/ Return
    \/ TrainStep
    \/ ValidateStep
    \/ BatchMetrics
    \/ TrainEpochEnd
    \/ ValidateEpochEnd
    \/ EpochMetrics
    \/ ValidateBegin
    \/ EarlyStoppingCheck
    \/ OsRemove
    \/ TorchSave
    \/ Break
    \/ SchedulerStep

Spec == Init /\ [][Next]_vars

SpecRecall == InitRecall /\ [][Next]_vars

SpecBatch == InitBatch /\ [][Next]_vars

\* a direct call of the method batch_metrics(labels_list, preds_list)
CallBatchMetrics ==
    /\ pc = "call"
    /\ step < MaxCalls
    /\ labels_list' \in CallLabels
    /\ preds_list' \in CallPreds
    /\ pc' = "batch_metrics"
    /\ UNCHANGED <<cfg_vars, e, phase, step, run_loss, count_vars, hist_vars,
                   stop_vars, model, files, scheduler_steps, error>>

NextCall == CallBatchMetrics \/ BatchMetrics

SpecCall == InitCall /\ [][NextCall]_vars

\* another process, or the user, removes a checkpoint file
ExternalRemove ==
    /\ pc \notin {"done", "error"}
    /\ \E f \in files : files' = files \ {f}
    /\ UNCHANGED <<cfg_vars, loop_vars, count_vars, hist_vars, stop_vars,
                   model, scheduler_steps, error>>

NextEnv == Next \/ ExternalRemove

SpecEnv == InitEnv /\ [][NextEnv]_vars

\* the call of epoch_metrics that ends a phase
NextMetrics == EpochMetrics

SpecMetrics == InitMetrics /\ [][NextMetrics]_vars

----------------------------------------------------------------------------
(* Properties of the early-stopping policy *)

\* the step records an improvement
RecordsImprovement ==
    \/ early_stopping_checkpoints' # early_stopping_checkpoints
    \/ best_model' # best_model
    \/ threshold_val_loss' # threshold_val_loss
    \/ threshold_avg_recall' # threshold_avg_recall
    \/ unchanged_epochs' < unchanged_epochs

\* C1: a step appends to early_stopping_checkpoints, replaces best_model,
\* resets unchanged_epochs or moves a threshold only as the early-stopping
\* check of an epoch whose validation loss is strictly below the stored
\* threshold_val_loss and whose target average recall is strictly above the
\* stored threshold_avg_recall; an equal loss or recall is no improvement.
C1_ImprovedOnlyIfBothStrict ==
    [][RecordsImprovement =>
          /\ pc = "early_stopping_check"
          /\ Less(epoch_val_loss, threshold_val_loss)
          /\ Less(threshold_avg_recall, epoch_val_avg_recall)
          /\ epoch_val_loss # threshold_val_loss
          /\ epoch_val_avg_recall # threshold_avg_recall
          /\ early_stopping_checkpoints' =
                Append(early_stopping_checkpoints, current_epoch)
          /\ best_model' = model
          /\ unchanged_epochs' = 0
          /\ threshold_val_loss' = epoch_val_loss
          /\ threshold_avg_recall' = epoch_val_avg_recall]_vars

\* a second improvement has been recorded, against thresholds set by the first
C1_Witness ==
    /\ pc = "break_test"
    /\ Len(early_stopping_checkpoints) = 2
    /\ Last(early_stopping_checkpoints) = current_epoch

\* the number of epochs completed since the latest improvement epoch
EpochsSinceImprovement == current_epoch - Last(early_stopping_checkpoints)

\* training() left its loop through the break of line 123
Stopped == pc = "done" /\ e < epochs

\* C2: with patience >= 1 and an improvement epoch behind it, the break test
\* at the end of an epoch ends training exactly when that epoch is the
\* patience-th consecutive non-improving one, never earlier and never later,
\* and once training() has ended no step of it runs any more.
C2_StopsExactlyAtPatience ==
    [][/\ (patience >= 1 /\ pc = "break_test" /\ early_stopping_checkpoints # <<>>) =>
             /\ EpochsSinceImprovement <= patience
             /\ unchanged_epochs = EpochsSinceImprovement
             /\ (pc' = "done") <=> (EpochsSinceImprovement = patience)
       /\ (pc = "done") => UNCHANGED vars]_vars

\* training stopped at the end of epoch 3, the 2nd non-improving epoch after
\* the improvement of epoch 1
C2_Witness ==
    /\ Stopped
    /\ patience = 2
    /\ early_stopping_checkpoints = <<1>>
    /\ current_epoch = 3

\* C3: the thresholds start at +infinity and 0, so the first epoch is an
\* improvement whenever its validation loss is finite and its target average
\* recall is above 0.
C3_FirstEpochImproves ==
    (current_epoch = 1 /\ pc \in {"torch_save", "break_test", "done"}
        /\ Less(Div(0, 1), epoch_val_avg_recall))
    => early_stopping_checkpoints = <<1>>

\* C4: an improvement saves the snapshot under the number of the current
\* epoch and deletes the checkpoint of the previous improvement epoch if
\* there is one; with no previous improvement the pruning step deletes nothing
\* and completes without error, whatever the number of the epoch.
C4_PruneThenSaveCompletes ==
    [][/\ (pc = "os_remove" /\ Len(early_stopping_checkpoints) < 2) =>
             (pc' = "torch_save" /\ files' = files)
       /\ (pc = "os_remove" /\ Len(early_stopping_checkpoints) >= 2) =>
             (pc' = "torch_save" /\
              \A f \in files' :
                 f.name # early_stopping_checkpoints[Len(early_stopping_checkpoints) - 1])
       /\ (pc = "torch_save") =>
             (pc' = "break_test" /\
              [name |-> current_epoch, content |-> best_model] \in files')]_vars

\* C5: when training() returns after at least one epoch, the best model is
\* in a checkpoint file that exists at that moment.
C5_BestModelSavedAtReturn ==
    (pc = "done" /\ current_epoch >= 1) =>
        \E f \in files : f.content = best_model

----------------------------------------------------------------------------
(* Properties of the target average recall *)

\* the classes whose index is not in labels_of_normal_classes
TargetClasses ==
    {c \in 0..(no_of_classes - 1) :
        labels_of_normal_classes.none \/ ~InList(c, labels_of_normal_classes.list)}

\* the arithmetic mean of the latest validation recall of the target classes
MeanTargetRecall ==
    Div(SumSeq([c \in 1..no_of_classes |->
                  IF (c - 1) \in TargetClasses
                  THEN Last(validation_history.recall_per_class[c]) ELSE 0]),
        100 * Cardinality(TargetClasses))

\* C6: for every list of integers that leaves at least one class outside it
\* (and for None), the target average recall of the early-stopping check is
\* the mean of the latest validation recall of exactly the classes that are
\* not in the list.
C6_TargetRecallIsMean ==
    (pc = "early_stopping_check" /\ TargetClasses # {}) =>
        /\ RecallDivisor(no_of_classes, labels_of_normal_classes) # 0
        /\ epoch_val_avg_recall = MeanTargetRecall

\* labels_of_normal_classes lists every class index
CoversAllClasses ==
    /\ ~labels_of_normal_classes.none
    /\ \A c \in 0..(no_of_classes - 1) : InList(c, labels_of_normal_classes.list)

\* C7: when labels_of_normal_classes covers every class index, the first
\* early-stopping check ends in a fatal error: it never completes, nothing
\* is recorded or saved and no second epoch runs.
C7_AllNormalFailsFast ==
    CoversAllClasses =>
        /\ pc \notin {"os_remove", "torch_save", "break_test"}
        /\ early_stopping_checkpoints = <<>>
        /\ files = {}
        /\ e = 0
        /\ current_epoch <= 1

----------------------------------------------------------------------------
(* Properties of batch_metrics *)

\* C8: a call of batch_metrics with lists of different lengths ends in a
\* fatal error and leaves the three count lists as they were.
C8_MismatchedLengthsRejected ==
    [][(pc = "batch_metrics" /\ Len(labels_list) # Len(preds_list)) =>
          (pc' = "error" /\ UNCHANGED count_vars)]_vars

\* C9: when the checkpoint file of the previous improvement epoch is missing,
\* the failed deletion does not end training: the step goes on to save the
\* new checkpoint.
C9_MissingFileIsRecoverable ==
    [][(/\ pc = "os_remove"
        /\ Len(early_stopping_checkpoints) >= 2
        /\ ~Exists(early_stopping_checkpoints[Len(early_stopping_checkpoints) - 1])
        /\ pc' # pc) =>
          (pc' = "torch_save" /\ error' = "none")]_vars

\* the batches of the phase in progress
CurrentLoader == IF phase = "train" THEN train_loader ELSE validation_loader

\* the instances of the batches accumulated so far in the phase
InstancesSoFar == SumSeq([i \in 1..step |-> Len(CurrentLoader[i])])

\* those of them whose label is a class index
ClassInstancesSoFar ==
    SumSeq([i \in 1..step |->
        Cardinality({j \in 1..Len(CurrentLoader[i]) :
            CurrentLoader[i][j] \in 0..(no_of_classes - 1)})])

\* C10 as stated: in each phase, after every call of batch_metrics,
\* sum(target_true) is the number of instances accumulated so far in the
\* phase, whatever integer labels the batches carry.
C10_SumIsAllInstances ==
    (phase \in {"train", "validate"}) => SumSeq(target_true) = InstancesSoFar

\* C10 amended: in each phase of each epoch, after the reset and after every
\* call of batch_metrics, sum(target_true) is the number of instances
\* accumulated so far in that phase whose label is a class index
\* 0..no_of_classes-1; the counts start from zero in every phase.
C10_SumIsClassInstances ==
    (phase \in {"train", "validate"}) =>
        /\ SumSeq(target_true) = ClassInstancesSoFar
        /\ step = 0 => (/\ target_true = Zeros(no_of_classes)
                        /\ predicted_true = Zeros(no_of_classes)
                        /\ correct_true = Zeros(no_of_classes))

\* the validation phase of the second epoch has accumulated its two batches,
\* one instance of which carries a label that is no class index
C10_Witness ==
    /\ e = 1
    /\ pc = "validate_epoch"
    /\ validation_loader = Loader4
    /\ step = 2
    /\ InstancesSoFar = 3
    /\ SumSeq(target_true) = 2

----------------------------------------------------------------------------
(* Properties of the histories *)

\* the lengths of all the lists of a history dictionary
LengthsOf(h) ==
    {Len(h.loss), Len(h.accuracy), Len(h.avg_recall), Len(h.avg_precision),
     Len(h.avg_f1)}
    \cup {Len(h.recall_per_class[c]) : c \in DOMAIN h.recall_per_class}
    \cup {Len(h.precision_per_class[c]) : c \in DOMAIN h.precision_per_class}
    \cup {Len(h.f1_per_class[c]) : c \in DOMAIN h.f1_per_class}

IsPrefix(s, t) == Len(s) <= Len(t) /\ \A i \in 1..Len(s) : s[i] = t[i]

\* a history after the step keeps every entry it had before the step
Extends(h, g) ==
    /\ IsPrefix(h.loss, g.loss)
    /\ IsPrefix(h.accuracy, g.accuracy)
    /\ IsPrefix(h.avg_recall, g.avg_recall)
    /\ IsPrefix(h.avg_precision, g.avg_precision)
    /\ IsPrefix(h.avg_f1, g.avg_f1)
    /\ \A c \in DOMAIN h.recall_per_class :
          /\ IsPrefix(h.recall_per_class[c], g.recall_per_class[c])
          /\ IsPrefix(h.precision_per_class[c], g.precision_per_class[c])
          /\ IsPrefix(h.f1_per_class[c], g.f1_per_class[c])

\* the number of epochs that have completed: the loop is between two
\* iterations, or training() has returned
EpochsCompleted == IF Stopped THEN e + 1 ELSE e

\* C11: after k epochs have completed, every list of training_history and of
\* validation_history has length exactly k (within an epoch k or k + 1), and
\* no step changes or removes an entry appended before it.
C11_HistoriesGrowInLockstep ==
    /\ [](pc \in {"for", "done"} =>
            LengthsOf(training_history) \cup LengthsOf(validation_history)
                = {EpochsCompleted})
    /\ [](pc # "done" =>
            LengthsOf(training_history) \cup LengthsOf(validation_history)
                \subseteq {e, e + 1})
    /\ [][/\ Extends(training_history, training_history')
          /\ Extends(validation_history, validation_history')]_vars

\* two epochs have completed and the training recall of class 0 differed
\* between them
C11_Witness ==
    /\ pc = "for"
    /\ e = 2
    /\ training_history.recall_per_class[1] = <<100, 0>>
    /\ Len(validation_history.avg_f1) = 2

----------------------------------------------------------------------------
(* Properties of termination *)

\* the epoch number of the last improvement among the first j epochs (0: none)
LastImprovementBy(j) ==
    LET before == {early_stopping_checkpoints[i] :
                      i \in 1..Len(early_stopping_checkpoints)} \cap (1..j)
    IN  IF before = {} THEN 0 ELSE CHOOSE m \in before : \A k \in before : k <= m

\* the value of unchanged_epochs at the end of epoch j
UnchangedAt(j) == j - LastImprovementBy(j)

\* the number of epochs that have run
EpochsRun == Len(validation_history.loss)

\* training() has returned after exactly min(epochs, s) epochs, s the first
\* epoch at whose end unchanged_epochs equals patience
ReturnedAfterMinEpochs ==
    /\ EpochsRun <= epochs
    /\ \A j \in 1..(EpochsRun - 1) : UnchangedAt(j) # patience
    /\ \/ EpochsRun = epochs
       \/ EpochsRun >= 1 /\ UnchangedAt(EpochsRun) = patience

\* C12: training() is never left by an exception, and when it returns it has
\* run exactly min(epochs, s) epochs, s being the first epoch at whose end
\* unchanged_epochs equals patience.
C12_ReturnsAfterMinEpochs ==
    /\ pc # "error"
    /\ pc = "done" => ReturnedAfterMinEpochs

----------------------------------------------------------------------------
(* Properties of the scheduler *)

\* C13: with a scheduler configured, scheduler.step() has been called once
\* for every epoch that ended without stopping training and for no other
\* epoch: a call happens only after the epoch's early-stopping check, when
\* unchanged_epochs differs from patience, and the epoch on which training
\* stops gets no call.
C13_SchedulerStepsOncePerContinuedEpoch ==
    /\ [](scheduler => scheduler_steps = e)
    /\ [](scheduler /\ Stopped => scheduler_steps = EpochsRun - 1)
    /\ [][scheduler /\ scheduler_steps' # scheduler_steps =>
            /\ scheduler_steps' = scheduler_steps + 1
            /\ pc = "break_test"
            /\ EpochsRun = e + 1
            /\ unchanged_epochs # patience
            /\ UNCHANGED <<hist_vars, stop_vars>>]_vars

\* training stopped on its second epoch after one call of scheduler.step()
C13_Witness ==
    /\ scheduler
    /\ Stopped
    /\ EpochsRun = 2
    /\ scheduler_steps = 1

----------------------------------------------------------------------------
(* Properties of the metrics *)

\* every entry of a list of metric values (in hundredths) lies in [0, 1]
InUnitRange(l) == \A i \in 1..Len(l) : l[i] \in 0..100

PerClassInUnitRange(h) ==
    \A c \in DOMAIN h.recall_per_class :
        /\ InUnitRange(h.recall_per_class[c])
        /\ InUnitRange(h.precision_per_class[c])
        /\ InUnitRange(h.f1_per_class[c])

\* C14: after every batch correct_true[c] <= target_true[c] and
\* correct_true[c] <= predicted_true[c] for every class, and every per-class
\* recall, precision and F1 value appended by epoch_metrics lies in [0, 1].
C14_PerClassMetricsInUnitRange ==
    /\ \A c \in DOMAIN correct_true :
          /\ 0 <= correct_true[c]
          /\ correct_true[c] <= target_true[c]
          /\ correct_true[c] <= predicted_true[c]
    /\ PerClassInUnitRange(training_history)
    /\ PerClassInUnitRange(validation_history)

\* a validation phase in which a class was predicted twice and was right once:
\* recall 1, precision 0.5, F1 0.66
C14_Witness ==
    \E c \in DOMAIN validation_history.recall_per_class :
        /\ validation_history.recall_per_class[c] # << >>
        /\ Last(validation_history.recall_per_class[c]) = 100
        /\ Last(validation_history.precision_per_class[c]) = 50
        /\ Last(validation_history.f1_per_class[c]) = 66
        /\ correct_true[c] = 1
        /\ predicted_true[c] = 2

\* the values of one phase as functions of its final counts, in hundredths
RecallOf(c) ==
    IF target_true[c] > 0 THEN Round2(correct_true[c], target_true[c]) ELSE 0
PrecisionOf(c) ==
    IF predicted_true[c] > 0 THEN Round2(correct_true[c], predicted_true[c]) ELSE 0
F1Of(c) ==
    IF PrecisionOf(c) + RecallOf(c) = 0 THEN 0
    ELSE Round2(2 * RoundedHalfF1(PrecisionOf(c), RecallOf(c)), 100)
AccuracyOf == Round2(SumSeq(correct_true), SumSeq(target_true))
AvgRecallOf == Mean2([c \in 1..no_of_classes |-> RecallOf(c)])
AvgPrecisionOf == Mean2([c \in 1..no_of_classes |-> PrecisionOf(c)])
AvgF1Of == Mean2([c \in 1..no_of_classes |-> F1Of(c)])

\* C15: epoch_metrics appends, for every class, recall = correct/target and
\* precision = correct/predicted rounded to 2 decimals (0 for a zero
\* denominator) and f1 = round(2 * round(p*r/(p+r), 2), 2) of the rounded
\* precision and recall (0 when p + r = 0), and, when the phase counted an
\* instance, accuracy = sum(correct)/sum(target) rounded to 2 decimals and
\* the macro averages as the rounded unweighted means of the per-class values.
C15_EpochMetricsFormulas ==
    pc # "epoch_metrics" =>
        /\ \A c \in 1..no_of_classes :
              /\ training_history.recall_per_class[c] = <<RecallOf(c)>>
              /\ training_history.precision_per_class[c] = <<PrecisionOf(c)>>
              /\ training_history.f1_per_class[c] = <<F1Of(c)>>
        /\ SumSeq(target_true) > 0 =>
              /\ training_history.accuracy = <<AccuracyOf>>
              /\ training_history.avg_recall = <<AvgRecallOf>>
              /\ training_history.avg_precision = <<AvgPrecisionOf>>
              /\ training_history.avg_f1 = <<AvgF1Of>>

\* one class with 1 of 3 instances right and 2 predictions, the other with
\* 0 of 1: recalls 0.33 and 0, precisions 0.5 and 0, F1 0.4 and 0, accuracy
\* 0.25, and the mean recall 0.165 appended as 0.17
C15_Witness ==
    /\ pc = "validate"
    /\ \E c, k \in 1..no_of_classes :
          /\ target_true[c] = 3
          /\ predicted_true[c] = 2
          /\ correct_true[c] = 1
          /\ training_history.recall_per_class[c] = <<33>>
          /\ training_history.precision_per_class[c] = <<50>>
          /\ training_history.f1_per_class[c] = <<40>>
          /\ training_history.recall_per_class[k] = <<0>>
    /\ training_history.accuracy = <<25>>
    /\ training_history.avg_recall = <<17>>

----------------------------------------------------------------------------
(* Properties of the checkpoint files *)

\* C16: the checkpoint of the earlier improvement is deleted only after the
\* new checkpoint has been persisted: once a checkpoint file exists, no step
\* leaves the program without a persisted checkpoint.
C16_AlwaysOneCheckpointPersisted ==
    [][files # {} => files' # {}]_vars

----------------------------------------------------------------------------
(* Frame of the early-stopping check *)

\* the epoch that just ended is no improvement: its validation loss is not
\* below threshold_val_loss or its target recall not above threshold_avg_recall
NonImprovingEpoch ==
    \/ ~Less(epoch_val_loss, threshold_val_loss)
    \/ ~Less(threshold_avg_recall, epoch_val_avg_recall)

\* C17: an early-stopping check on a non-improving epoch adds exactly 1 to
\* unchanged_epochs and leaves threshold_val_loss, threshold_avg_recall,
\* best_model, early_stopping_checkpoints and the checkpoint files unchanged.
C17_NonImprovingCheckOnlyCounts ==
    [][pc = "early_stopping_check" /\ NonImprovingEpoch =>
          /\ unchanged_epochs' = unchanged_epochs + 1
          /\ UNCHANGED <<threshold_val_loss, threshold_avg_recall, best_model,
                         early_stopping_checkpoints, files>>
          /\ UNCHANGED <<hist_vars, model, scheduler_steps>>]_vars

\* after an improvement at epoch 1, the check of epoch 2 found a lower loss
\* without a higher recall and only counted the epoch
C17_Witness ==
    /\ pc = "break_test"
    /\ current_epoch = 2
    /\ unchanged_epochs = 1
    /\ early_stopping_checkpoints = <<1>>
    /\ Less(epoch_val_loss, threshold_val_loss)
    /\ \E f \in files : f.name = 1

----------------------------------------------------------------------------
(* The set of persisted checkpoints *)

\* the identifiers of the persisted checkpoint files
Persisted == {f.name : f \in files}

\* no early-stopping check is under way or was left by an exception
NoCheckUnderWay == pc \notin {"os_remove", "torch_save", "error"}

\* C18: after every completed early-stopping check of a run that started
\* without checkpoint files, no checkpoint is persisted if no epoch has
\* improved, and otherwise exactly one, whose identifier is the last element
\* of early_stopping_checkpoints (the 1-based number of the latest
\* improvement epoch) and whose content is best_model.
C18_ExactlyNewestCheckpointPersisted ==
    NoCheckUnderWay =>
        IF early_stopping_checkpoints = << >>
        THEN files = {}
        ELSE /\ Cardinality(files) = 1
             /\ Persisted = {Last(early_stopping_checkpoints)}
             /\ Last(early_stopping_checkpoints) \in 1..current_epoch
             /\ \A f \in files : f.content = best_model

\* epochs 1 and 2 both improved and only model_epoch2.pt is left
C18_Witness ==
    /\ pc = "break_test"
    /\ early_stopping_checkpoints = <<1, 2>>
    /\ Persisted = {2}

----------------------------------------------------------------------------
(* Monotonicity of the early-stopping state *)

StrictlyIncreasing(l) == \A i, j \in 1..Len(l) : i < j => l[i] < l[j]

\* C19: threshold_val_loss never increases and threshold_avg_recall never
\* decreases; a step changes either of them only as an early-stopping check
\* of an improvement epoch, which lowers the loss threshold strictly and
\* raises the recall threshold strictly to the values of that epoch and
\* appends the epoch number; early_stopping_checkpoints is a strictly
\* increasing sequence of epoch numbers between 1 and the number of epochs run.
C19_ThresholdsMonotone ==
    /\ [](/\ StrictlyIncreasing(early_stopping_checkpoints)
          /\ \A i \in 1..Len(early_stopping_checkpoints) :
                early_stopping_checkpoints[i] \in 1..EpochsRun)
    /\ [][/\ ~Less(threshold_val_loss, threshold_val_loss')
          /\ ~Less(threshold_avg_recall', threshold_avg_recall)
          /\ (\/ threshold_val_loss' # threshold_val_loss
              \/ threshold_avg_recall' # threshold_avg_recall
              \/ early_stopping_checkpoints' # early_stopping_checkpoints) =>
                /\ pc = "early_stopping_check"
                /\ Less(threshold_val_loss', threshold_val_loss)
                /\ Less(threshold_avg_recall, threshold_avg_recall')
                /\ threshold_val_loss' = epoch_val_loss
                /\ threshold_avg_recall' = epoch_val_avg_recall
                /\ early_stopping_checkpoints' =
                      Append(early_stopping_checkpoints, EpochsRun)]_vars

\* two improvements in a row: the thresholds moved twice
C19_Witness ==
    /\ pc = "break_test"
    /\ early_stopping_checkpoints = <<1, 2>>
    /\ Less(threshold_val_loss, Div(2, 1))
    /\ Less(Div(InitialThresholdAvgRecall, 1), threshold_avg_recall)

----------------------------------------------------------------------------
(* The bound of the patience counter *)

\* C20: unchanged_epochs never exceeds patience, and after each completed
\* epoch it equals the number of epochs completed since the last improvement
\* epoch (since the start when no epoch has improved).
C20_UnchangedNeverExceedsPatience ==
    /\ unchanged_epochs <= patience
    /\ pc \in {"for", "break_test", "done"} =>
          unchanged_epochs = UnchangedAt(EpochsRun)
====
